---- MODULE Spec2Model ----
(***************************************************************************)
(* Pair-wise distance kernels of Pairs_Fortran.ipynb: r_ij_cython (Cython, *)
(* prange over the outer loop) and getrij (Fortran, OpenMP PARALLEL DO)    *)
(* called through r_ij_fortran.  Both fill the packed upper triangle of    *)
(* the distance matrix of N points in 3 dimensions.                        *)
(***************************************************************************)
EXTENDS Integers, Sequences, FiniteSets, TLC

(***************************************************************************)
(* Sizes of the instances explored.                                        *)
(***************************************************************************)
\* largest number of points in the multi-threaded runs
MaxN == 3
\* largest number of points in the single-threaded runs
MaxSeqN == 5
\* number of worker threads of the parallel region
NThreads == 2
\* half-width of the windows of N, i and j sampled around the 32-bit edge
Edge == 2

Workers == 1..NThreads

(***************************************************************************)
(* 32-bit signed integers: C int (line 81), integer(c_int) and default     *)
(* integer (lines 156-159).  Arithmetic wraps modulo 2^32.  Every operator *)
(* below keeps its own intermediate values inside the 32-bit range.        *)
(***************************************************************************)
MaxInt16 == 2^15 - 1

MaxInt32 == 2147483647

MinInt32 == (-MaxInt32) - 1

Int32 == MinInt32..MaxInt32

\* a + b fits
FitsAdd(a, b) ==
    IF b > 0 THEN a <= MaxInt32 - b
    ELSE IF b < 0 THEN a >= MinInt32 - b
    ELSE TRUE

\* a + b, wrapped
Add32(a, b) ==
    IF FitsAdd(a, b) THEN a + b
    ELSE IF b > 0 THEN ((a - MaxInt32) - 1) + ((b - MaxInt32) - 1)
    ELSE ((a + MaxInt32) + 1) + ((b + MaxInt32) + 1)

\* -a, wrapped
Neg32(a) == IF a = MinInt32 THEN MinInt32 ELSE -a

\* a - b, wrapped
Sub32(a, b) ==
    IF b = MinInt32 THEN Add32(Add32(a, MaxInt32), 1) ELSE Add32(a, -b)

RECURSIVE MulNat32(_, _)
\* a * b wrapped, b >= 0, by doubling
MulNat32(a, b) ==
    IF b = 0 THEN 0
    ELSE IF b % 2 = 1 THEN Add32(a, MulNat32(Add32(a, a), b \div 2))
    ELSE MulNat32(Add32(a, a), b \div 2)

\* a * b, wrapped
Mul32(a, b) ==
    IF b >= 0 THEN MulNat32(a, b)
    ELSE IF b = MinInt32 THEN (IF a % 2 = 0 THEN 0 ELSE MinInt32)
    ELSE Neg32(MulNat32(a, -b))

\* Python/Cython integer division (cdivision off): rounds to minus infinity.
\* The dividends of lines 85 and 88 are even, also after wrapping, so true
\* division followed by int() gives the same value.
FloorDiv(a, b) == a \div b

\* Fortran integer division: truncates toward zero (b > 0)
TruncDiv(a, b) ==
    IF a < 0 /\ a % b # 0 THEN (a \div b) + 1 ELSE a \div b

(***************************************************************************)
(* Index arithmetic of the two kernels, in 32-bit integers.                *)
(***************************************************************************)
\* i*(N-1) - i*(i+1)/2 + j - 1 over the integers (lines 88 and 172)
LinIndex(a, b, n) == ((a * (n - 1)) - ((a * (a + 1)) \div 2)) + b - 1

\* N*(N-1)/2 over the integers, evaluated without forming N*N
TriLen(n) == IF n % 2 = 0 THEN (n \div 2) * (n - 1) ELSE n * ((n - 1) \div 2)

\* line 85: int((N*N-N)/2) with N a C int
CyLen(n) == FloorDiv(Sub32(Mul32(n, n), n), 2)

\* line 197: (N * N - N) // 2 on Python integers of unbounded width
PyLen(n) == TriLen(n)

\* line 88 with i*(N+1) in place of i*(N-1)
CySlotWrongStride(a, b, n) ==
    Sub32(Add32(Sub32(Mul32(a, Add32(n, 1)),
                      FloorDiv(Mul32(a, Add32(a, 1)), 2)), b), 1)

\* line 88: int(i * (N - 1) - i * (i + 1) / 2 + j - 1) with i, j, N C ints
CySlot(a, b, n) ==
    Sub32(Add32(Sub32(Mul32(a, Sub32(n, 1)),
                      FloorDiv(Mul32(a, Add32(a, 1)), 2)), b), 1)

\* line 172 with the roles of i and j exchanged
FoSlotSwapped(a, b, n) ==
    Add32(1, Sub32(Add32(Sub32(Mul32(b, Sub32(n, 1)),
                               TruncDiv(Mul32(b, Add32(b, 1)), 2)), a), 1))

\* line 172: 1 + (i * (N - 1) - i * (i + 1) / 2 + j - 1) in default integers
FoSlot(a, b, n) ==
    Add32(1, Sub32(Add32(Sub32(Mul32(a, Sub32(n, 1)),
                               TruncDiv(Mul32(a, Add32(a, 1)), 2)), b), 1))

\* lines 165 and 167: ii = i * 3, jj = j * 3
RowBase(a) == Mul32(a, 3)

(***************************************************************************)
(* Floating point.  Coordinates are integers, so differences, squares and  *)
(* their sums are exact; sqrt is a fixed-point square root with SqrtScale  *)
(* fractional steps per unit, rounded down.                                *)
(***************************************************************************)
SqrtScale == 2^4

RECURSIVE SqrtSearch(_, _, _)
\* the largest q in lo..hi with q*q <= x (lo*lo <= x)
SqrtSearch(lo, hi, x) ==
    IF lo = hi THEN lo
    ELSE LET mid == (lo + hi + 1) \div 2
         IN  IF mid <= x \div mid THEN SqrtSearch(mid, hi, x)
             ELSE SqrtSearch(lo, mid - 1, x)

\* libc sqrt (line 73, line 92) and the Fortran intrinsic (line 173)
Sqrt(s) == SqrtSearch(0, (s * SqrtScale) + 1, s * SqrtScale * SqrtScale)

\* (a - b) ** 2
SqDiff(a, b) == (a - b) * (a - b)

(***************************************************************************)
(* Inputs: N rows of 3 coordinates (np.loadtxt("Au.xyz"), lines 42-43).    *)
(***************************************************************************)
Axes == 0..2

\* rows on the x axis at squared abscissae: all pair distances differ
RowSquares(n) == [ax \in Axes |-> IF ax = 0 THEN n * n ELSE 0]

\* the origin, then unit points cycling through the axes
RowUnits(n) == [ax \in Axes |-> IF n > 0 /\ ax = (n - 1) % 3 THEN 1 ELSE 0]

\* a point with three different coordinates per row
RowMixed(n) == [ax \in Axes |-> IF ax = 0 THEN n ELSE IF ax = 1 THEN 2 * n ELSE n * n]

Inputs(n) ==
    { [a \in 0..(n - 1) |-> RowSquares(a)],
      [a \in 0..(n - 1) |-> RowUnits(a)],
      [a \in 0..(n - 1) |-> RowMixed(a)] }

\* coords.ravel() (line 199): row-major flattening, read 1-based by getrij
Ravel(c, n) == [p \in 1..(3 * n) |-> c[(p - 1) \div 3][(p - 1) % 3]]

\* the distance of rows a and b, summed axis by axis
RefDist(c, a, b) ==
    Sqrt(SqDiff(c[a][0], c[b][0]) + SqDiff(c[a][1], c[b][1]) + SqDiff(c[a][2], c[b][2]))

\* the pairs a < b of rows
Pairs(n) == { p \in (0..(n - 1)) \X (0..(n - 1)) : p[1] < p[2] }

\* (i,j) comes before (i2,j2) in the order "increasing i, then increasing j"
LexLess(p, q) == p[1] < q[1] \/ (p[1] = q[1] /\ p[2] < q[2])

\* the number of pairs that come before p
Rank(p, n) == Cardinality({ q \in Pairs(n) : LexLess(q, p) })

\* the reference: a sequential double loop appending one distance per pair
Reference(c, n) ==
    [pos \in 0..(TriLen(n) - 1) |->
        LET p == CHOOSE q \in Pairs(n) : Rank(q, n) = pos
        IN  RefDist(c, p[1], p[2])]

(***************************************************************************)
(* State.                                                                  *)
(***************************************************************************)
VARIABLES
    kernel,     \* "cython" (r_ij_cython) or "fortran" (r_ij_fortran + getrij)
    N,          \* coords.shape[0]
    coords,     \* the point set, rows 0..N-1 of 3 coordinates
    owner,      \* the worker that runs each iteration i of the parallel loop
    phase,      \* "call", "par" (inside the parallel loop), "ret", "err", "probe"
    M,          \* the allocated length of r
    r,          \* the output vector, by 0-based position
    pc,         \* per worker: the line it is about to run
    i, j, k,    \* per worker: the loop variables (private in both kernels)
    l_cy,       \* per worker: l of r_ij_cython (private under prange)
    tmp_cy,     \* per worker: tmp of r_ij_cython (private under prange)
    ii, jj,     \* getrij: shared by the workers (no PRIVATE clause)
    tmp, l,     \* getrij: shared by the workers (no PRIVATE clause)
    slotOf,     \* history: the 0-based position computed for each pair (i,j)
    wrote,      \* history: the stores into r, <<worker, i, j, position>>
    acc,        \* history: scalar accesses, <<name, copy, worker, kind>>
    touched,    \* history: some element of coords or r was read or written
    oob,        \* history: the out-of-bounds accesses to coords or r
    probe       \* the index values of one loop iteration (index-only runs)

params == <<kernel, N, coords, owner>>
priv == <<i, j, k>>
cyvars == <<l_cy, tmp_cy>>
fovars == <<ii, jj, tmp, l>>
hist == <<slotOf, wrote, acc, touched, oob>>
vars == <<params, phase, M, r, pc, priv, cyvars, fovars, hist, probe>>

Kernels == {"cython", "fortran"}

NoProbe == [kind |-> "none"]

\* the state at the call, for a given kernel, input and schedule
AtCall(kn, n, c, ow) ==
    /\ kernel = kn
    /\ N = n
    /\ coords = c
    /\ owner = ow
    /\ phase = "call"
    /\ M = 0
    /\ r = <<>>
    /\ pc = [w \in Workers |-> "idle"]
    /\ i = [w \in Workers |-> -1]
    /\ j = [w \in Workers |-> 0]
    /\ k = [w \in Workers |-> 0]
    /\ l_cy = [w \in Workers |-> 0]
    /\ tmp_cy = [w \in Workers |-> 0]
    /\ ii = 0
    /\ jj = 0
    /\ tmp = 0
    /\ l = 0
    /\ slotOf = <<>>
    /\ wrote = {}
    /\ acc = {}
    /\ touched = FALSE
    /\ oob = {}
    /\ probe = NoProbe

\* any split of the outer loop over the workers
Init ==
    \E kn \in Kernels, n \in 0..MaxN :
        \E c \in Inputs(n), ow \in [0..(n - 1) -> Workers] :
            AtCall(kn, n, c, ow)

\* the same loop on a single thread
InitSeq ==
    \E kn \in Kernels, n \in 0..MaxSeqN :
        \E c \in Inputs(n) :
            AtCall(kn, n, c, [a \in 0..(n - 1) |-> 1])

(***************************************************************************)
(* Entry: allocation of r and start of the parallel loop.                  *)
(***************************************************************************)
\* np.zeros(len): ValueError on a negative length
Zeros(len) == [pos \in 0..(len - 1) |-> 0]

\* r_ij_cython, lines 82-86
r_ij_cython ==
    /\ phase = "call"
    /\ kernel = "cython"
    /\ M' = CyLen(N)
    /\ IF M' < 0
       THEN /\ phase' = "err"
            /\ UNCHANGED <<r, pc>>
       ELSE /\ phase' = "par"
            /\ r' = Zeros(M')
            /\ pc' = [w \in Workers |-> "next"]
    /\ UNCHANGED <<params, priv, cyvars, fovars, hist, probe>>

\* r_ij_fortran, lines 196-199, and getrij up to line 163
r_ij_fortran ==
    /\ phase = "call"
    /\ kernel = "fortran"
    /\ M' = PyLen(N)
    /\ r' = Zeros(M')
    /\ l' = 0
    /\ phase' = "par"
    /\ pc' = [w \in Workers |-> "next"]
    /\ UNCHANGED <<params, priv, cyvars, ii, jj, tmp, hist, probe>>

\* the rows of worker w that it has not started yet
RowsLeft(w) == { a \in 0..(N - 1) : owner[a] = w /\ a > i[w] }

Min(S) == CHOOSE x \in S : \A y \in S : x <= y

\* one step of the parallel loop over i (line 86, lines 163-164)
NextRow(w) ==
    /\ phase = "par"
    /\ pc[w] = "next"
    /\ IF RowsLeft(w) = {}
       THEN /\ pc' = [pc EXCEPT ![w] = "done"]
            /\ UNCHANGED <<i, j>>
       ELSE LET a == Min(RowsLeft(w))
            IN  /\ i' = [i EXCEPT ![w] = a]
                /\ IF kernel = "cython"
                   THEN /\ j' = [j EXCEPT ![w] = a + 1]
                        /\ pc' = [pc EXCEPT ![w] = IF a + 1 < N THEN "c88" ELSE "next"]
                   ELSE /\ pc' = [pc EXCEPT ![w] = "f165"]
                        /\ UNCHANGED j
    /\ UNCHANGED <<params, phase, M, r, k, cyvars, fovars, hist, probe>>

\* the log of scalar accesses: copy 0 is the shared variable, copy w the
\* private one of worker w
Logged(S) == acc' = acc \cup S
\* what a read outside an array may return
Garbage == {0, 1}

\* coords[a, ax] of r_ij_cython (bounds checking is off, line 76)
CyRead(a, ax) ==
    IF a \in 0..(N - 1) /\ ax \in Axes THEN {coords[a][ax]} ELSE Garbage

\* coords(p) of getrij, coords being dimension(N*3) (line 154)
FoRead(p) ==
    IF p \in 1..(3 * N) THEN {Ravel(coords, N)[p]} ELSE Garbage

(***************************************************************************)
(* r_ij_cython, the body of the prange loop (lines 87-92).                 *)
(***************************************************************************)
\* line 88
C88(w) ==
    /\ phase = "par"
    /\ pc[w] = "c88"
    /\ l_cy' = [l_cy EXCEPT ![w] = CySlot(i[w], j[w], N)]
    /\ slotOf' = (<<i[w], j[w]>> :> l_cy'[w]) @@ slotOf
    /\ Logged({<<"l", w, w, "write">>})
    /\ pc' = [pc EXCEPT ![w] = "c89"]
    /\ UNCHANGED <<params, phase, M, r, priv, tmp_cy, fovars, wrote, touched, oob, probe>>

\* line 89, and the start of the loop of line 90
C89(w) ==
    /\ phase = "par"
    /\ pc[w] = "c89"
    /\ tmp_cy' = [tmp_cy EXCEPT ![w] = 0]
    /\ k' = [k EXCEPT ![w] = 0]
    /\ Logged({<<"tmp", w, w, "write">>})
    /\ pc' = [pc EXCEPT ![w] = "c91"]
    /\ UNCHANGED <<params, phase, M, r, i, j, l_cy, fovars, slotOf, wrote, touched, oob, probe>>

\* line 91, once per axis
C91(w) ==
    /\ phase = "par"
    /\ pc[w] = "c91"
    /\ \E x \in CyRead(i[w], k[w]), y \in CyRead(j[w], k[w]) :
          tmp_cy' = [tmp_cy EXCEPT ![w] = @ + SqDiff(x, y)]
    /\ k' = [k EXCEPT ![w] = @ + 1]
    /\ Logged({<<"tmp", w, w, "read">>, <<"tmp", w, w, "write">>})
    /\ touched' = TRUE
    /\ oob' = oob \cup { <<"coords", a, k[w]>> : a \in {b \in {i[w], j[w]} :
                                                   ~(b \in 0..(N - 1) /\ k[w] \in Axes)} }
    /\ pc' = [pc EXCEPT ![w] = IF k'[w] < 3 THEN "c91" ELSE "c92"]
    /\ UNCHANGED <<params, phase, M, r, i, j, l_cy, fovars, slotOf, wrote, probe>>

\* line 92, and the step of the loop of line 87
C92(w) ==
    /\ phase = "par"
    /\ pc[w] = "c92"
    /\ IF l_cy[w] \in 0..(M - 1)
       THEN /\ r' = [r EXCEPT ![l_cy[w]] = Sqrt(tmp_cy[w])]
            /\ UNCHANGED oob
       ELSE /\ oob' = oob \cup {<<"r", l_cy[w], 0>>}
            /\ UNCHANGED r
    /\ wrote' = wrote \cup {<<w, i[w], j[w], l_cy[w]>>}
    /\ Logged({<<"l", w, w, "read">>, <<"tmp", w, w, "read">>})
    /\ touched' = TRUE
    /\ j' = [j EXCEPT ![w] = @ + 1]
    /\ pc' = [pc EXCEPT ![w] = IF j'[w] < N THEN "c88" ELSE "next"]
    /\ UNCHANGED <<params, phase, M, i, k, cyvars, fovars, slotOf, probe>>

(***************************************************************************)
(* getrij, the body of the PARALLEL DO loop (lines 165-174).  ii, jj, tmp  *)
(* and l are one variable each for all workers; each statement is a step.  *)
(***************************************************************************)
\* line 165, and the start of the loop of line 166
F165(w) ==
    /\ phase = "par"
    /\ pc[w] = "f165"
    /\ ii' = RowBase(i[w])
    /\ j' = [j EXCEPT ![w] = i[w] + 1]
    /\ Logged({<<"ii", 0, w, "write">>})
    /\ pc' = [pc EXCEPT ![w] = IF j'[w] <= N - 1 THEN "f167" ELSE "next"]
    /\ UNCHANGED <<params, phase, M, r, i, k, cyvars, jj, tmp, l, slotOf, wrote, touched, oob, probe>>

\* line 167
F167(w) ==
    /\ phase = "par"
    /\ pc[w] = "f167"
    /\ jj' = RowBase(j[w])
    /\ Logged({<<"jj", 0, w, "write">>})
    /\ pc' = [pc EXCEPT ![w] = "f168"]
    /\ UNCHANGED <<params, phase, M, r, priv, cyvars, ii, tmp, l, slotOf, wrote, touched, oob, probe>>

\* line 168, and the start of the loop of line 169
F168(w) ==
    /\ phase = "par"
    /\ pc[w] = "f168"
    /\ tmp' = 0
    /\ k' = [k EXCEPT ![w] = 1]
    /\ Logged({<<"tmp", 0, w, "write">>})
    /\ pc' = [pc EXCEPT ![w] = "f170"]
    /\ UNCHANGED <<params, phase, M, r, i, j, cyvars, ii, jj, l, slotOf, wrote, touched, oob, probe>>

\* line 170, once per axis
F170(w) ==
    /\ phase = "par"
    /\ pc[w] = "f170"
    /\ \E x \in FoRead(Add32(ii, k[w])), y \in FoRead(Add32(jj, k[w])) :
          tmp' = tmp + SqDiff(x, y)
    /\ k' = [k EXCEPT ![w] = @ + 1]
    /\ Logged({<<"ii", 0, w, "read">>, <<"jj", 0, w, "read">>,
               <<"tmp", 0, w, "read">>, <<"tmp", 0, w, "write">>})
    /\ touched' = TRUE
    /\ oob' = oob \cup { <<"coords", p, 0>> : p \in {q \in {Add32(ii, k[w]), Add32(jj, k[w])} :
                                                   q \notin 1..(3 * N)} }
    /\ pc' = [pc EXCEPT ![w] = IF k'[w] <= 3 THEN "f170" ELSE "f172"]
    /\ UNCHANGED <<params, phase, M, r, i, j, cyvars, ii, jj, l, slotOf, wrote, probe>>

\* line 172
F172(w) ==
    /\ phase = "par"
    /\ pc[w] = "f172"
    /\ l' = FoSlot(i[w], j[w], N)
    /\ slotOf' = (<<i[w], j[w]>> :> (l' - 1)) @@ slotOf
    /\ Logged({<<"l", 0, w, "write">>})
    /\ pc' = [pc EXCEPT ![w] = "f173"]
    /\ UNCHANGED <<params, phase, M, r, priv, cyvars, ii, jj, tmp, wrote, touched, oob, probe>>

\* line 173, and the step of the loop of line 166
F173(w) ==
    /\ phase = "par"
    /\ pc[w] = "f173"
    /\ IF l \in 1..M
       THEN /\ r' = [r EXCEPT ![l - 1] = Sqrt(tmp)]
            /\ UNCHANGED oob
       ELSE /\ oob' = oob \cup {<<"r", l, 0>>}
            /\ UNCHANGED r
    /\ wrote' = wrote \cup {<<w, i[w], j[w], l - 1>>}
    /\ Logged({<<"l", 0, w, "read">>, <<"tmp", 0, w, "read">>})
    /\ touched' = TRUE
    /\ j' = [j EXCEPT ![w] = @ + 1]
    /\ pc' = [pc EXCEPT ![w] = IF j'[w] <= N - 1 THEN "f167" ELSE "next"]
    /\ UNCHANGED <<params, phase, M, i, k, cyvars, fovars, slotOf, probe>>

\* the end of the parallel loop and the return of r (line 93, lines 175-200)
Join ==
    /\ phase = "par"
    /\ \A w \in Workers : pc[w] = "done"
    /\ phase' = "ret"
    /\ UNCHANGED <<params, M, r, pc, priv, cyvars, fovars, hist, probe>>

Next ==
    \/ r_ij_cython
    \/ r_ij_fortran
    \/ \E w \in Workers : NextRow(w)
    \/ \E w \in Workers : C88(w)
    \/ \E w \in Workers : C89(w)
    \/ \E w \in Workers : C91(w)
    \/ \E w \in Workers : C92(w)
    \/ \E w \in Workers : F165(w)
    \/ \E w \in Workers : F167(w)
    \/ \E w \in Workers : F168(w)
    \/ \E w \in Workers : F170(w)
    \/ \E w \in Workers : F172(w)
    \/ \E w \in Workers : F173(w)
    \/ Join

\* the kernels with the outer loop split over NThreads workers
Spec == Init /\ [][Next]_vars

\* the kernels on one thread
SpecSeq == InitSeq /\ [][Next]_vars
(***************************************************************************)
(* Index-only runs.  For N near the edge of the 32-bit range the arrays    *)
(* are too large to hold in a state; the allocation and the index values   *)
(* of single loop iterations (i,j) are computed and recorded in probe.     *)
(***************************************************************************)
\* the largest N whose square fits in 32 bits
RootMaxInt32 == SqrtSearch(0, 2^16, MaxInt32)

SampleN(kn) ==
    (0..(Edge + 1))
      \cup { 2^e : e \in 2..15 }
      \cup ((RootMaxInt32 - Edge)..(RootMaxInt32 + Edge + 1))
      \cup (IF kn = "cython" THEN {2^16 + 1} ELSE {})

SampleI(n) ==
    ((0..Edge) \cup ((n - 2 - Edge)..(n - 2))) \cap (0..(n - 2))

SampleJ(n, a) ==
    (((a + 1)..(a + 1 + Edge)) \cup ((n - 1 - Edge)..(n - 1)) \cup {(n \div 2) + 1})
      \cap ((a + 1)..(n - 1))

InitIndex ==
    \E kn \in Kernels :
        \E n \in SampleN(kn) :
            AtCall(kn, n, <<>>, <<>>)

\* line 85 (r_ij_cython) and lines 197-198 (r_ij_fortran): the length of r
ProbeAlloc ==
    /\ phase = "call"
    /\ M' = IF kernel = "cython" THEN CyLen(N) ELSE PyLen(N)
    /\ phase' = IF M' < 0 THEN "err" ELSE "probe"
    /\ UNCHANGED <<params, r, pc, priv, cyvars, fovars, hist, probe>>

\* the 32-bit products, as <<x, y, x*y wrapped>>
Prod(x, y) == <<x, y, Mul32(x, y)>>

\* lines 85-92 for one iteration (a,b) of r_ij_cython
CyProbe(a, b) ==
    [kind |-> "iter", i |-> a, j |-> b,
     muls |-> {Prod(N, N), Prod(a, Sub32(N, 1)), Prod(a, Add32(a, 1))},
     diff |-> Sub32(Mul32(N, N), N),
     write |-> CySlot(a, b, N),
     first |-> 0,
     last |-> M - 1,
     reads |-> {a, b},
     lo |-> 0,
     hi |-> N - 1]

\* lines 154-173 for one iteration (a,b) of getrij
FoProbe(a, b) ==
    [kind |-> "iter", i |-> a, j |-> b,
     muls |-> {Prod(N, 3), Prod(a, 3), Prod(b, 3),
               Prod(a, Sub32(N, 1)), Prod(a, Add32(a, 1))},
     write |-> FoSlot(a, b, N),
     first |-> 1,
     last |-> M,
     reads |-> { Add32(RowBase(x), ax) : x \in {a, b}, ax \in 1..3 },
     lo |-> 1,
     hi |-> Mul32(N, 3)]

\* one iteration of the loops, indices only
ProbeIter ==
    /\ phase = "probe"
    /\ \E a \in SampleI(N) :
          \E b \in SampleJ(N, a) :
              probe' = IF kernel = "cython" THEN CyProbe(a, b) ELSE FoProbe(a, b)
    /\ UNCHANGED <<params, phase, M, r, pc, priv, cyvars, fovars, hist>>

NextIndex == ProbeAlloc \/ ProbeIter

\* allocation and index arithmetic of single iterations, for sampled N, i, j
SpecIndex == InitIndex /\ [][NextIndex]_vars
(***************************************************************************)
(* The kernels run on one thread, as functions of the input.               *)
(***************************************************************************)
\* lines 88-92 for the pair (a,b)
CyIter(rr, a, b, n, c) ==
    [rr EXCEPT ![CySlot(a, b, n)] =
        Sqrt(SqDiff(c[a][0], c[b][0]) + SqDiff(c[a][1], c[b][1]) + SqDiff(c[a][2], c[b][2]))]

\* lines 165-173 for the pair (a,b)
FoIter(rr, a, b, n, c) ==
    LET f == Ravel(c, n)
        x == RowBase(a)
        y == RowBase(b)
    IN  [rr EXCEPT ![FoSlot(a, b, n) - 1] =
            Sqrt(SqDiff(f[x + 1], f[y + 1]) + SqDiff(f[x + 2], f[y + 2])
                   + SqDiff(f[x + 3], f[y + 3]))]

RECURSIVE SeqFrom(_, _, _, _, _, _)
\* the double loop from the pair (a,b) on, in program order
SeqFrom(rr, a, b, kn, n, c) ==
    IF a >= n THEN rr
    ELSE IF b >= n THEN SeqFrom(rr, a + 1, a + 2, kn, n, c)
    ELSE SeqFrom(IF kn = "cython" THEN CyIter(rr, a, b, n, c) ELSE FoIter(rr, a, b, n, c),
                 a, b + 1, kn, n, c)

\* the vector the kernel kn returns when its loop runs on a single thread
SeqResult(kn, n, c) ==
    SeqFrom(Zeros(IF kn = "cython" THEN CyLen(n) ELSE PyLen(n)), 0, 1, kn, n, c)

(***************************************************************************)
(* Properties.                                                             *)
(***************************************************************************)
\* the 0-based length-M vector holds, for every pair, its distance at LinIndex
HoldsDistances ==
    \A p \in Pairs(N) :
        /\ LinIndex(p[1], p[2], N) \in DOMAIN r
        /\ r[LinIndex(p[1], p[2], N)] = RefDist(coords, p[1], p[2])

\* C1: when the kernel (r_ij_cython, or getrij through r_ij_fortran) has
\* returned, the slot at position linindex(i,j,N) holds the Euclidean
\* distance of rows i and j, for every pair i < j < N.
C1_DistanceAtLinIndex == phase = "ret" => HoldsDistances

\* Lemma (Spec): r_ij_cython returns the distances whatever the schedule.
CythonHoldsDistances == (phase = "ret" /\ kernel = "cython") => HoldsDistances

\* Lemma (SpecSeq): on one thread both kernels return the distances, and
\* SeqResult is the vector they return.
SeqHoldsDistances ==
    phase = "ret" => (HoldsDistances /\ r = SeqResult(kernel, N, coords)
                        /\ r = Reference(coords, N))

\* C2: the positions computed for the pairs (i,j), 0 <= i < j < N, are a
\* bijection onto 0..M-1, M = N(N-1)/2: no two pairs get the same position,
\* every position is in range, and after the whole loop every position of
\* 0..M-1 is the position of some pair.
C2_Bijection ==
    /\ \A p, q \in DOMAIN slotOf : slotOf[p] = slotOf[q] => p = q
    /\ \A p \in DOMAIN slotOf : slotOf[p] \in 0..(TriLen(N) - 1)
    /\ DOMAIN slotOf \subseteq Pairs(N)
    /\ phase = "ret" =>
          /\ DOMAIN slotOf = Pairs(N)
          /\ { slotOf[p] : p \in DOMAIN slotOf } = 0..(TriLen(N) - 1)

\* a finished run with at least 6 pairs, all of them placed
C2_Witness ==
    /\ phase = "ret"
    /\ N >= 4
    /\ Cardinality(DOMAIN slotOf) = TriLen(N)

\* the length the claim states, which a 32-bit length cannot equal once
\* N(N-1)/2 exceeds 2^31 - 1 (N > 2^16)
LengthIsTriangular(len, n) == n <= 2^16 /\ len = TriLen(n)

\* C3: for every N >= 0 the vector allocated by r_ij_cython and by
\* r_ij_fortran has length exactly N(N-1)/2, the call raises no error, and
\* for N = 0 and N = 1 the length is 0.
C3_LengthTriangular ==
    phase # "call" =>
        /\ phase # "err"
        /\ LengthIsTriangular(M, N)
        /\ (N <= 1 => M = 0)

\* Lemma (SpecIndex): up to N = 46341 both allocations have N(N-1)/2 elements.
LengthTriangularBelowWrap == N <= 46341 => C3_LengthTriangular

\* Lemma (Spec, SpecSeq): the allocated vector has N(N-1)/2 elements.
SmallLengthTriangular ==
    phase \in {"par", "ret"} => (M = TriLen(N) /\ DOMAIN r = 0..(M - 1))

\* C4: no two loop iterations write the same output slot, and when the loop
\* has finished every slot of the output vector has been written exactly
\* once.
C4_DisjointWrites ==
    /\ \A x, y \in wrote : x # y => x[4] # y[4]
    /\ phase = "ret" =>
          \A pos \in 0..(M - 1) : Cardinality({ x \in wrote : x[4] = pos }) = 1

\* Lemma (Spec): the stores of r_ij_cython are disjoint and cover r.
CythonDisjointWrites == kernel = "cython" => C4_DisjointWrites

\* C5: for every assignment of rows to workers and every interleaving, the
\* vector returned after the join equals the vector the same loop produces
\* on a single thread.
C5_ParallelEqualsSequential ==
    phase = "ret" => r = SeqResult(kernel, N, coords)

\* Lemma (Spec): r_ij_cython returns its single-thread result.
CythonDeterministic ==
    (phase = "ret" /\ kernel = "cython") => r = SeqResult("cython", N, coords)

\* C6: r_ij_fortran(coords) returns the same vector as r_ij_cython(coords),
\* same length and same distance at every position.
C6_FortranEqualsCython ==
    (phase = "ret" /\ kernel = "fortran") =>
        /\ M = CyLen(N)
        /\ r = SeqResult("cython", N, coords)

\* C7: the positions follow the order "increasing i, then increasing j":
\* position(i,j) < position(i2,j2) exactly when (i,j) comes first; for
\* N = 3 the positions of (0,1), (0,2), (1,2) are 0, 1, 2.
C7_LexOrder ==
    /\ \A p, q \in DOMAIN slotOf : (slotOf[p] < slotOf[q]) <=> LexLess(p, q)
    /\ N = 3 =>
          \A p \in DOMAIN slotOf :
              slotOf[p] = IF p = <<0, 1>> THEN 0 ELSE IF p = <<0, 2>> THEN 1 ELSE 2

\* a finished run on 3 points, and one on more, with all pairs placed
C7_Witness ==
    /\ phase = "ret"
    /\ N >= 3
    /\ DOMAIN slotOf = Pairs(N)
    /\ <<1, 2>> \in DOMAIN slotOf
    /\ slotOf[<<1, 2>>] = N - 1

\* C8: no scalar (ii, jj, tmp, l) is written by one worker and read or
\* written by another: two accesses of the same variable by different
\* workers are both reads.
C8_NoSharedScalar ==
    \A x, y \in acc :
        (x[1] = y[1] /\ x[2] = y[2] /\ x[3] # y[3]) =>
            (x[4] = "read" /\ y[4] = "read")

\* Lemma (Spec): the scalars of r_ij_cython are private.
CythonNoSharedScalar == kernel = "cython" => C8_NoSharedScalar

\* C9: every array access of a loop iteration is in bounds, for every N:
\* the store into r is inside the allocated vector, the reads of coords are
\* inside the input, and for N <= 1 there is no iteration.
C9_InBounds ==
    /\ probe.kind = "iter" =>
          /\ probe.write \in probe.first..probe.last
          /\ probe.reads \subseteq probe.lo..probe.hi
    /\ N <= 1 => probe.kind = "none"

\* Lemma (SpecIndex): up to N = 46340 the sampled iterations are in bounds.
InBoundsBelowWrap == N <= 46340 => C9_InBounds

\* Lemma (Spec, SpecSeq): for small N no access is out of bounds, and for
\* N <= 1 no array element is touched.
SmallInBounds == oob = {} /\ (N <= 1 => ~touched)

\* C10: for 0 <= N <= 46340 and 0 <= i < j < N the 32-bit index arithmetic
\* does not wrap: the products N*N, i*(N-1), i*(i+1), i*3, j*3 and the
\* difference N*N-N are in [-2^31, 2^31-1] and are computed exactly, the
\* computed slot is linindex(i,j,N) and the computed length is N(N-1)/2.
C10_NoWrap ==
    (probe.kind = "iter" /\ N <= 46340) =>
        /\ { N * N, (N * N) - N, probe.i * (N - 1), probe.i * (probe.i + 1),
             probe.i * 3, probe.j * 3 } \subseteq Int32
        /\ \A m \in probe.muls : m[3] = m[1] * m[2]
        /\ kernel = "cython" => probe.diff = (N * N) - N
        /\ probe.write - probe.first = LinIndex(probe.i, probe.j, N)
        /\ M = TriLen(N)
        /\ M = ((N * N) - N) \div 2

\* the last iteration of the largest N of the claim
C10_Witness ==
    /\ probe.kind = "iter"
    /\ N = 46340
    /\ probe.i = N - 2
    /\ probe.j = N - 1

====
